---- MODULE Spec2Model ----
(***************************************************************************)
(* A model of gsd's snapshot service (src/src/snapshot/mod.rs): the target *)
(* registry behind its tokio RwLock, the per-target scheduler tasks, the   *)
(* startup settle pass, configuration reload and shutdown, together with   *)
(* the commit protocol of do_commit (src/src/git/mod.rs).                  *)
(*                                                                         *)
(* Every action is one stretch of code between two suspension points       *)
(* (.await on the registry lock, a timer, a channel or a git child         *)
(* process).  A critical section on the registry that holds no .await is   *)
(* one atomic action guarded by the lock being free.  The only guard that  *)
(* is held across suspension points is the read guard of                   *)
(* commit_all_targets, which is modelled by read_guard.                    *)
(***************************************************************************)
EXTENDS Integers, FiniteSets, Sequences, TLC

\* ------------------------------------------------------------------ bounds

\* Target paths (the registry keys) that configurations may mention.
Keys == {"a", "b"}

\* Values of interval_seconds a valid configuration may give a target.
Intervals == {1, 2}

\* Scheduler tasks spawned in one run of the model (a JoinHandle is never
\* reused): once that many exist, no further reload is taken up and every
\* further initialization fails.
MaxTasks == 2

\* The clock of the scheduler task's timing model runs from 0 to MaxTime
\* (seconds).
MaxTime == 6

\* Instants at which the task of the timing model may be spawned.
SpawnTimes == {0, 1}

\* Changed paths one call of format_commit_message may be given.
MaxPaths == 15

\* Records (a rename pair counts as one) in one output of git status.
MaxRecords == 3

\* Reloads in one run of the reload model with whole configurations.
MaxReloads == 2

\* Bytes one git child process writes to its stdout, values of the cap
\* max_bytes, and bytes the pipe between the child and the service holds
\* (scaled down: the default cap of 1 MiB is larger than a pipe).
MaxOutput == 5

MaxBytes == 4

PipeCapacity == 3

\* Targets in one configuration given to Config::validate.
MaxTargets == 2

\* Calls of ensure_repo_initialized on the one directory of the repository
\* model, and commits made in it by commit cycles.
MaxCalls == 3

MaxCommits == 2

\* ------------------------------------------------------------------- state

VARIABLES
    config,        \* self.config.targets: path -> [enabled, interval_seconds]
    config_path,   \* self.config_path is Some(..)
    git_available, \* the git executable can be run (is_git_available)
    timer,         \* one scheduler task with its tokio Interval against the
                   \* clock; off while the service as a whole is modelled
    targets,       \* self.targets: path -> [config, in_flight, task_handle]
    tasks,         \* 0: run()'s own call of commit_target_static;
                   \* h >= 1: the task behind JoinHandle h
    read_guard,    \* commit_all_targets holds targets.read()
    mainPc,        \* where initialize()/run()/reload_config() stands
    settleLeft,    \* commit_all_targets: entries the for loop has not visited
    loaded,        \* reload_config: result of Config::load_from_sources
    new_config,    \* reload_config: new_config.targets
    rmLeft,        \* reload_config: current_paths still to be removed
    addLeft,       \* reload_config: enabled new targets not yet visited
    adding,        \* add_target: the target whose initialization is running
    init_failed,   \* targets whose initialization failed in initialize()
                   \* or in the latest reload
    shutdown_ch,   \* a message is waiting in the shutdown channel
    reload_ch,     \* a message is waiting in the reload channel
    watcher,       \* "unset" | "up" | "closed": the reload sender's state
    fmt,           \* one call of format_commit_message; off while the
                   \* service as a whole is modelled
    status,        \* one call of list_changed_files on an output of
                   \* git status --porcelain -z; off likewise
    repo,          \* one target directory under ensure_repo_initialized;
                   \* off likewise
    reconcile,     \* reload_config with whole configurations (global
                   \* settings, full target specs) on a quiet service; off
                   \* likewise
    capture,       \* one git child process and the read of its output in
                   \* run_git_with_options; off likewise
    validation     \* one call of Config::validate; off likewise

vars == << config, config_path, git_available, timer, targets, tasks, read_guard, mainPc, settleLeft,
           loaded, new_config, rmLeft, addLeft, adding, init_failed,
           shutdown_ch, reload_ch, watcher, fmt, status, repo,
           reconcile, capture, validation >>

\* ----------------------------------------------------------------- helpers

Put(f, k, v) == [x \in (DOMAIN f) \cup {k} |-> IF x = k THEN v ELSE f[x]]

Drop(f, k) == [x \in (DOMAIN f) \ {k} |-> f[x]]

\* Option<JoinHandle>::None
NoHandle == 0

\* The index of run()'s own commit_target_static activation in tasks.
Main == 0

\* A disabled target's interval is never read; one value stands for all.
TargetConfig ==
    [enabled : {TRUE}, interval_seconds : Intervals]
        \cup { [enabled |-> FALSE, interval_seconds |-> 1] }

\* Configurations Config::validate accepts: pairwise distinct paths, every
\* interval > 0.
ValidConfigs == UNION { [S -> TargetConfig] : S \in SUBSET Keys }

NoConfig == [k \in {} |-> [enabled |-> FALSE, interval_seconds |-> 1]]

\* Result<Config, ConfigError> of Config::load_from_sources
LoadResults ==
    { [ok |-> TRUE, targets |-> c] : c \in ValidConfigs }
        \cup { [ok |-> FALSE, targets |-> NoConfig] }

NotLoaded == [ok |-> FALSE, targets |-> NoConfig]

TargetState(cfg, h) == [config |-> cfg, in_flight |-> FALSE, task_handle |-> h]

Activation(key, pc) ==
    [aborted |-> FALSE, interval_seconds |-> 0, target_id |-> key, pc |-> pc,
     head |-> "unchecked", changes |-> "unchecked", staged |-> FALSE,
     result |-> "none"]

Handles == (DOMAIN tasks) \ {Main}

Live(p) == p \in DOMAIN tasks /\ ~tasks[p].aborted

\* The positions of a commit_target_static activation inside do_commit.
DoCommitPcs ==
    {"is_detached_head", "has_changes", "list_changed_files", "git_add",
     "git_commit"}

\* A faulty registry lock that its own reader could take again for writing.
WriteLockFree_Reentrant == TRUE

\* A faulty commit_target_static that keeps targets.write() over do_commit.
WriteLockFree_HeldInCommit ==
    /\ ~read_guard
    /\ \A p \in DOMAIN tasks : ~(Live(p) /\ tasks[p].pc \in DoCommitPcs)

\* tokio's RwLock grants write() only when no read guard is out.  Every
\* other guard is released within the action that takes it.
WriteLockFree == ~read_guard

\* ------------------------------------------------- registry and task handles

NextHandle(ts) == Cardinality(DOMAIN ts)

\* A faulty task that does not skip the first tick.
SpawnPc_NoSkip == "tick"

\* spawn_target_task: where a new task stands, before the tick it skips.
SpawnPc == "first_tick"

\* spawn_target_task: a new task, about to consume its immediate first tick.
spawn_target_task(ts, target_id, cfg) ==
    Put(ts, NextHandle(ts),
        [aborted |-> FALSE, interval_seconds |-> cfg.interval_seconds,
         target_id |-> target_id, pc |-> SpawnPc,
         head |-> "unchecked", changes |-> "unchecked", staged |-> FALSE,
         result |-> "none"])

\* A faulty abort that detaches the handle and lets the task run on.
AbortHandle_Detach(ts, h) == ts

\* JoinHandle::abort: the task is cancelled at its suspension point and its
\* future (with its locals) is dropped; it never runs again.  What is kept
\* of its position is whether do_commit was cut short.
AbortHandle(ts, h) ==
    IF h = NoHandle
    THEN ts
    ELSE [ts EXCEPT ![h].aborted = TRUE, ![h].head = "unchecked",
                    ![h].changes = "unchecked", ![h].staged = FALSE,
                    ![h].result = "none",
                    ![h].pc = IF ts[h].pc \in DoCommitPcs
                              THEN "cancelled_in_do_commit"
                              ELSE "cancelled"]

\* remove_target, the map: targets.remove(path_key)
remove_target_entry(reg, path_key) == Drop(reg, path_key)

\* A faulty remove_target that drops the handle without abort().
remove_target_abort_Leak(reg, ts, path_key) == ts

\* remove_target, the task: state.task_handle.take() and handle.abort()
remove_target_abort(reg, ts, path_key) ==
    IF path_key \in DOMAIN reg
    THEN AbortHandle(ts, reg[path_key].task_handle)
    ELSE ts

\* The handle spawn_target_task returned last.
LastHandle(ts) == NextHandle(ts) - 1

\* A faulty add_target that spawns the task and forgets the entry.
add_target_entry_Forget(reg, ts, path_key, target) == reg

\* add_target: targets.insert with the handle of the task spawned before.
add_target_entry(reg, ts, path_key, target) ==
    Put(reg, path_key, TargetState(target, LastHandle(ts)))

\* A faulty new_target_paths without the filter on enabled.
NewTargetPaths_All(c) == DOMAIN c

\* reload_config: the enabled paths of the new configuration.
NewTargetPaths(c) == { k \in DOMAIN c : c[k].enabled }

\* A faulty needs_restart that restarts every registered target.
NeedsRestart_Always(reg, path_key, target) == path_key \in DOMAIN reg

\* A faulty needs_restart that never restarts.
NeedsRestart_Never(reg, path_key, target) == FALSE

\* reload_config: needs_restart
NeedsRestart(reg, path_key, target) ==
    /\ path_key \in DOMAIN reg
    /\ reg[path_key].config.interval_seconds # target.interval_seconds

\* A faulty match that goes on with an empty configuration after Err.
ReloadAborts_Never(r) == FALSE

\* reload_config: the Err arm of the match on load_from_sources
ReloadAborts(r) == ~r.ok

\* A faulty do_commit that goes on to commit when nothing has changed.
NoChanges_Ignored(changed) == FALSE

\* do_commit: "if !has_changes(path).await? { return Ok(()) }".
NoChanges(changed) == ~changed

\* A faulty exists check that adds every enabled target again.
Exists_Never(reg, path_key) == FALSE

\* reload_config: "Add if not present", targets.contains_key(&path_key).
Exists(reg, path_key) == path_key \in DOMAIN reg

\* commit_target_static: the check before in_flight is set
MayBegin(reg, target_id) ==
    /\ target_id \in DOMAIN reg
    /\ ~reg[target_id].in_flight

\* A faulty clear that only runs when do_commit returned Ok.
ClearInFlight_OnOk(reg, target_id, result) ==
    IF target_id \in DOMAIN reg /\ result = "Ok"
    THEN [reg EXCEPT ![target_id].in_flight = FALSE]
    ELSE reg

\* commit_target_static: "Clear in_flight", whatever do_commit returned
ClearInFlight(reg, target_id, result) ==
    IF target_id \in DOMAIN reg
    THEN [reg EXCEPT ![target_id].in_flight = FALSE]
    ELSE reg

\* A faulty do_commit that goes on when HEAD is detached.
DetachedAborts_Never(is_detached) == FALSE

\* do_commit: the detached-HEAD arm
DetachedAborts(is_detached) == is_detached

\* A faulty initialize that goes on without git.
GitNotAvailable_Ignored(available) == FALSE

\* initialize: the GitNotAvailable return
GitNotAvailable(available) == ~available

\* Where commit_target_static returns to: the for loop of
\* commit_all_targets, or the loop of the scheduler task.
Return(p) == IF p = Main THEN "returned" ELSE "tick"

RECURSIVE StartAll(_, _, _)
\* start_all_target_tasks: a task for every entry that has no handle yet.
StartAll(reg, ts, S) ==
    IF S = {}
    THEN << reg, ts >>
    ELSE LET id == CHOOSE x \in S : TRUE
         IN  StartAll([reg EXCEPT ![id].task_handle = NextHandle(ts)],
                      spawn_target_task(ts, id, reg[id].config),
                      S \ {id})

\* A faulty stop_all_target_tasks that takes the handles without abort().
StopAll_Detach(reg, ts, S) ==
    << [k \in DOMAIN reg |-> [reg[k] EXCEPT !.task_handle = NoHandle]], ts >>

RECURSIVE StopAll(_, _, _)
\* stop_all_target_tasks: take and abort every handle.
StopAll(reg, ts, S) ==
    IF S = {}
    THEN << reg, ts >>
    ELSE LET id == CHOOSE x \in S : TRUE
         IN  StopAll([reg EXCEPT ![id].task_handle = NoHandle],
                     AbortHandle(ts, reg[id].task_handle),
                     S \ {id})

\* ------------------------------------------- the scheduler task against time

\* The timing model is not running.
TimerOff ==
    [pc |-> "off", now |-> 0, spawned |-> 0, period |-> 0, deadline |-> 0,
     fired |-> 0, started |-> 0, attempts |-> 0, result |-> "none"]

\* tokio::time::interval(period), created at instant now: the first tick
\* is due at once.
interval(now, period) ==
    [pc |-> SpawnPc, now |-> now, spawned |-> now, period |-> period,
     deadline |-> now, fired |-> 0, started |-> 0, attempts |-> 0,
     result |-> "none"]

\* Interval::tick completes once its deadline is reached.
TickReady(t) == t.now >= t.deadline

\* Interval::poll_tick with the default MissedTickBehavior::Burst: the next
\* deadline is one period after the deadline that fired, however late it
\* fired.
NextTimeout(timeout, now, period) == timeout + period

\* What do_commit may return to commit_target_static.
Results == {"Ok", "DetachedHead", "CommandFailed"}

\* No call of format_commit_message, of list_changed_files, no directory.
FmtOff == [pc |-> "off"]

StatusOff == [pc |-> "off"]

RepoOff == [pc |-> "off"]

\* No reload with whole configurations, no git child process, no call of
\* Config::validate.
ReconcileOff == [pc |-> "off"]

CaptureOff == [pc |-> "off"]

ValidationOff == [pc |-> "off"]

\* -------------------------------------------------------------------- Init

Init ==
    /\ config \in ValidConfigs
    /\ config_path \in BOOLEAN
    /\ git_available \in BOOLEAN
    /\ timer = TimerOff
    /\ fmt = FmtOff
    /\ status = StatusOff
    /\ repo = RepoOff
    /\ reconcile = ReconcileOff
    /\ capture = CaptureOff
    /\ validation = ValidationOff
    /\ targets = [k \in {} |-> TargetState([enabled |-> TRUE, interval_seconds |-> 1], NoHandle)]
    /\ tasks = [p \in {Main} |-> Activation("", "idle")]
    /\ read_guard = FALSE
    /\ mainPc = "new"
    /\ settleLeft = {}
    /\ loaded = NotLoaded
    /\ new_config = NoConfig
    /\ rmLeft = {}
    /\ addLeft = {}
    /\ adding = ""
    /\ init_failed = {}
    /\ shutdown_ch = FALSE
    /\ reload_ch = FALSE
    /\ watcher = "unset"

\* What no step of the service changes.
outside == << config_path, git_available, timer, fmt, status, repo,
              reconcile, capture, validation >>

reloadVars == << loaded, new_config, rmLeft, addLeft, adding, init_failed >>

\* ---------------------------------------------------------------- startup

\* initialize(): fails as a whole without git; otherwise registers every
\* enabled target whose ensure_repo_initialized succeeds.
initialize ==
    /\ mainPc = "new"
    /\ IF GitNotAvailable(git_available)
       THEN /\ mainPc' = "init_failed"
            /\ UNCHANGED << targets, init_failed >>
       ELSE /\ mainPc' = "initialized"
            /\ LET enabled == { k \in DOMAIN config : config[k].enabled }
               IN  \E ok \in SUBSET enabled :
                     /\ targets' = [k \in ok |-> TargetState(config[k], NoHandle)]
                     /\ init_failed' = enabled \ ok
    /\ UNCHANGED << config, outside, tasks, read_guard, settleLeft,
                    loaded, new_config, rmLeft, addLeft, adding,
                    shutdown_ch, reload_ch, watcher >>

\* run(), up to commit_all_targets' targets.read().await: the read guard is
\* taken and lives until the for loop is over.
run ==
    /\ mainPc = "initialized"
    /\ mainPc' = "commit_all_targets"
    /\ read_guard' = TRUE
    /\ settleLeft' = DOMAIN targets
    /\ UNCHANGED << config, outside, targets, tasks, reloadVars,
                    shutdown_ch, reload_ch, watcher >>

\* commit_all_targets: the for loop calls commit_target_static for the next
\* entry, or ends and drops the read guard.
commit_all_targets ==
    /\ mainPc = "commit_all_targets"
    /\ tasks[Main].pc \in {"idle", "returned"}
    /\ IF settleLeft = {}
       THEN /\ read_guard' = FALSE
            /\ mainPc' = "start_all_target_tasks"
            /\ tasks' = [tasks EXCEPT ![Main] = Activation("", "idle")]
            /\ settleLeft' = settleLeft
       ELSE \E id \in settleLeft :
            /\ settleLeft' = settleLeft \ {id}
            /\ tasks' = [tasks EXCEPT ![Main] = Activation(id, "lock_begin")]
            /\ UNCHANGED << read_guard, mainPc >>
    /\ UNCHANGED << config, outside, targets, reloadVars,
                    shutdown_ch, reload_ch, watcher >>

\* start_all_target_tasks under targets.write(), then setup_config_watcher:
\* without a config path, or when the watch cannot be set up, the reload
\* sender is dropped and the channel is closed.
start_all_target_tasks ==
    /\ mainPc = "start_all_target_tasks"
    /\ WriteLockFree
    /\ LET without == { k \in DOMAIN targets : targets[k].task_handle = NoHandle }
           started == StartAll(targets, tasks, without)
       IN  /\ targets' = started[1]
           /\ tasks' = started[2]
    /\ \E watching \in BOOLEAN :
         watcher' = IF config_path /\ watching THEN "up" ELSE "closed"
    /\ mainPc' = "select"
    /\ UNCHANGED << config, outside, read_guard, settleLeft, reloadVars,
                    shutdown_ch, reload_ch >>

\* ------------------------------------------------------- the main event loop

\* select!: shutdown_rx.recv() is ready; break.
select_shutdown ==
    /\ mainPc = "select"
    /\ shutdown_ch
    /\ shutdown_ch' = FALSE
    /\ mainPc' = "stop_all_target_tasks"
    /\ UNCHANGED << config, outside, targets, tasks, read_guard,
                    settleLeft, reloadVars, reload_ch, watcher >>

\* select!: reload_rx.recv() is ready, with a message or because the channel
\* is closed.  reload_config returns at once without a config path.
select_reload ==
    /\ mainPc = "select"
    /\ reload_ch \/ watcher = "closed"
    /\ NextHandle(tasks) <= MaxTasks
    /\ reload_ch' = FALSE
    /\ mainPc' = IF config_path THEN "reload_sleep" ELSE "select"
    /\ UNCHANGED << config, outside, targets, tasks, read_guard,
                    settleLeft, reloadVars, shutdown_ch, watcher >>

\* reload_config: the 100 ms sleep is over; Config::load_from_sources.
reload_load ==
    /\ mainPc = "reload_sleep"
    /\ \E r \in LoadResults : loaded' = r
    /\ mainPc' = "reload_loaded"
    /\ UNCHANGED << config, outside, targets, tasks, read_guard,
                    settleLeft, new_config, rmLeft, addLeft, adding,
                    init_failed, shutdown_ch, reload_ch, watcher >>

\* reload_config between two critical sections on the registry: the remove
\* loop while current paths are left to remove, then the add loop while
\* enabled new targets are left to visit, then self.config = new_config and
\* the return to the select loop.
ReloadContinues(rm, add, nc) ==
    /\ rmLeft' = rm
    /\ addLeft' = IF rm = {} THEN add ELSE addLeft
    /\ adding' = ""
    /\ IF rm # {}
       THEN /\ mainPc' = "reload_remove"
            /\ UNCHANGED << config, new_config >>
       ELSE IF add # {}
       THEN /\ mainPc' = "reload_add"
            /\ UNCHANGED << config, new_config >>
       ELSE /\ mainPc' = "select"
            /\ config' = nc
            /\ new_config' = NoConfig

\* reload_config: the match on the load result.  On Err the reload returns
\* Ok(()); on Ok, new_target_paths and current_paths are built.
reload_match ==
    /\ mainPc = "reload_loaded"
    /\ IF ReloadAborts(loaded)
       THEN /\ mainPc' = "select"
            /\ UNCHANGED << config, new_config, rmLeft, addLeft, adding,
                            init_failed >>
       ELSE /\ new_config' = loaded.targets
            /\ init_failed' = {}
            /\ rmLeft' = (DOMAIN targets) \ NewTargetPaths(loaded.targets)
            /\ addLeft' = NewTargetPaths(loaded.targets)
            /\ adding' = ""
            /\ IF rmLeft' # {}
               THEN mainPc' = "reload_remove" /\ config' = config
               ELSE IF addLeft' # {}
               THEN mainPc' = "reload_add" /\ config' = config
               ELSE mainPc' = "select" /\ config' = loaded.targets
    /\ loaded' = NotLoaded
    /\ UNCHANGED << outside, targets, tasks, read_guard, settleLeft,
                    shutdown_ch, reload_ch, watcher >>

\* reload_config: remove_target for a current path that is not an enabled
\* path of the new configuration.
reload_remove ==
    /\ mainPc = "reload_remove"
    /\ WriteLockFree
    /\ \E path \in rmLeft :
         /\ tasks' = remove_target_abort(targets, tasks, path)
         /\ targets' = remove_target_entry(targets, path)
         /\ ReloadContinues(rmLeft \ {path}, addLeft, new_config)
    /\ UNCHANGED << outside, read_guard, settleLeft, loaded, init_failed,
                    shutdown_ch, reload_ch, watcher >>

\* reload_config, one enabled target of the new configuration: needs_restart
\* and remove_target, then the exists check; add_target starts with
\* ensure_repo_initialized when the path is not registered.
reload_add ==
    /\ mainPc = "reload_add"
    /\ \E path_key \in addLeft :
         LET restart == NeedsRestart(targets, path_key, new_config[path_key])
             reg == IF restart THEN remove_target_entry(targets, path_key)
                    ELSE targets
             ts  == IF restart THEN remove_target_abort(targets, tasks, path_key)
                    ELSE tasks
         IN  /\ restart => WriteLockFree
             /\ targets' = reg
             /\ tasks' = ts
             /\ IF Exists(reg, path_key)
                THEN ReloadContinues({}, addLeft \ {path_key}, new_config)
                ELSE /\ mainPc' = "add_target"
                     /\ adding' = path_key
                     /\ UNCHANGED << config, new_config, rmLeft, addLeft >>
    /\ UNCHANGED << outside, read_guard, settleLeft, loaded, init_failed,
                    shutdown_ch, reload_ch, watcher >>

\* add_target: ensure_repo_initialized has returned; on Ok the task is
\* spawned and add_target waits for targets.write(), on Err it returns.
add_target ==
    /\ mainPc = "add_target"
    /\ \E initialized \in IF NextHandle(tasks) <= MaxTasks THEN BOOLEAN ELSE {FALSE} :
         IF initialized
         THEN /\ tasks' = spawn_target_task(tasks, adding, new_config[adding])
              /\ mainPc' = "add_target_insert"
              /\ UNCHANGED << config, new_config, rmLeft, addLeft, adding,
                              init_failed >>
         ELSE /\ init_failed' = init_failed \cup {adding}
              /\ tasks' = tasks
              /\ ReloadContinues({}, addLeft \ {adding}, new_config)
    /\ UNCHANGED << outside, targets, read_guard, settleLeft, loaded,
                    shutdown_ch, reload_ch, watcher >>

\* add_target under targets.write(): the entry is inserted with the handle
\* of the task just spawned.
add_target_insert ==
    /\ mainPc = "add_target_insert"
    /\ WriteLockFree
    /\ targets' = add_target_entry(targets, tasks, adding, new_config[adding])
    /\ ReloadContinues({}, addLeft \ {adding}, new_config)
    /\ UNCHANGED << outside, tasks, read_guard, settleLeft, loaded,
                    init_failed, shutdown_ch, reload_ch, watcher >>

\* stop_all_target_tasks under targets.write(); run() returns Ok.
stop_all_target_tasks ==
    /\ mainPc = "stop_all_target_tasks"
    /\ WriteLockFree
    /\ LET stopped == StopAll(targets, tasks, DOMAIN targets)
       IN  /\ targets' = stopped[1]
           /\ tasks' = stopped[2]
    /\ mainPc' = "done"
    /\ UNCHANGED << config, outside, read_guard, settleLeft, reloadVars,
                    shutdown_ch, reload_ch, watcher >>

\* ------------------------------------- scheduler task, commit_target_static

taskFrame == << config, outside, read_guard, mainPc, settleLeft,
                reloadVars, shutdown_ch, reload_ch, watcher >>

\* spawn_target_task: interval_timer.tick() completes at once the first
\* time; that tick is skipped.
first_tick(t) ==
    /\ t # Main
    /\ Live(t)
    /\ tasks[t].pc = "first_tick"
    /\ tasks' = [tasks EXCEPT ![t].pc = "tick"]
    /\ UNCHANGED << targets, taskFrame >>

\* The loop of the task: the interval has elapsed; commit_target_static is
\* called and waits for targets.write().
tick(t) ==
    /\ t # Main
    /\ Live(t)
    /\ tasks[t].pc = "tick"
    /\ tasks' = [tasks EXCEPT ![t].pc = "lock_begin", ![t].result = "none"]
    /\ UNCHANGED << targets, taskFrame >>

\* commit_target_static: "Check and set in_flight" under targets.write().
commit_target_static_begin(p) ==
    /\ Live(p)
    /\ tasks[p].pc = "lock_begin"
    /\ WriteLockFree
    /\ LET id == tasks[p].target_id
       IN  IF MayBegin(targets, id)
           THEN /\ targets' = [targets EXCEPT ![id].in_flight = TRUE]
                /\ tasks' = [tasks EXCEPT ![p].pc = "is_detached_head"]
           ELSE /\ targets' = targets
                /\ tasks' = [tasks EXCEPT ![p].pc = Return(p)]
    /\ UNCHANGED taskFrame

\* do_commit: is_detached_head (git rev-parse --abbrev-ref HEAD) has
\* returned: a failed command, or whether the repository's HEAD is detached
\* at this moment (the repository is changed from outside at any time).
is_detached_head(p) ==
    /\ Live(p)
    /\ tasks[p].pc = "is_detached_head"
    /\ \E command_ok \in BOOLEAN, is_detached \in BOOLEAN :
             tasks' =
               IF ~command_ok
               THEN [tasks EXCEPT ![p].pc = "lock_end",
                                  ![p].result = "CommandFailed"]
               ELSE IF DetachedAborts(is_detached)
               THEN [tasks EXCEPT ![p].pc = "lock_end",
                                  ![p].head = "detached",
                                  ![p].result = "DetachedHead"]
               ELSE [tasks EXCEPT ![p].pc = "has_changes",
                                  ![p].head = IF is_detached THEN "detached"
                                              ELSE "attached"]
    /\ UNCHANGED << targets, taskFrame >>

\* do_commit: has_changes (git status) has returned: an error, no changes
\* (Ok, nothing to commit), or changes.
has_changes(p) ==
    /\ Live(p)
    /\ tasks[p].pc = "has_changes"
    /\ \E r \in {"CommandFailed", "clean", "changed"} :
         tasks' =
           IF r = "CommandFailed"
           THEN [tasks EXCEPT ![p].pc = "lock_end", ![p].result = "CommandFailed"]
           ELSE IF NoChanges(r = "changed")
           THEN [tasks EXCEPT ![p].pc = "lock_end", ![p].changes = r,
                              ![p].result = "Ok"]
           ELSE [tasks EXCEPT ![p].pc = "list_changed_files", ![p].changes = r]
    /\ UNCHANGED << targets, taskFrame >>

\* do_commit: list_changed_files has returned; the message is formatted.
list_changed_files(p) ==
    /\ Live(p)
    /\ tasks[p].pc = "list_changed_files"
    /\ \E command_ok \in BOOLEAN :
         tasks' =
           IF command_ok
           THEN [tasks EXCEPT ![p].pc = "git_add"]
           ELSE [tasks EXCEPT ![p].pc = "lock_end", ![p].result = "CommandFailed"]
    /\ UNCHANGED << targets, taskFrame >>

\* commit_all: git add -A has returned; with exit code 0 the changes are
\* staged in the index.
commit_all_add(p) ==
    /\ Live(p)
    /\ tasks[p].pc = "git_add"
    /\ \E command_ok \in BOOLEAN :
         tasks' =
           IF command_ok
           THEN [tasks EXCEPT ![p].pc = "git_commit", ![p].staged = TRUE]
           ELSE [tasks EXCEPT ![p].pc = "lock_end", ![p].result = "CommandFailed"]
    /\ UNCHANGED << targets, taskFrame >>

\* What git commit -m leaves staged: with exit code 0 the staged changes
\* are in the new commit, otherwise the index stays as git add left it.
StagedAfterCommit(staged, command_ok) == staged /\ ~command_ok

\* commit_all: git commit -m has returned; do_commit returns.
commit_all_commit(p) ==
    /\ Live(p)
    /\ tasks[p].pc = "git_commit"
    /\ \E command_ok \in BOOLEAN :
         tasks' = [tasks EXCEPT ![p].pc = "lock_end",
                                ![p].staged = StagedAfterCommit(tasks[p].staged, command_ok),
                                ![p].result = IF command_ok THEN "Ok"
                                              ELSE "CommandFailed"]
    /\ UNCHANGED << targets, taskFrame >>

\* commit_target_static: "Clear in_flight" under targets.write(), then the
\* result is logged and the function returns.
commit_target_static_end(p) ==
    /\ Live(p)
    /\ tasks[p].pc = "lock_end"
    /\ WriteLockFree
    /\ targets' = ClearInFlight(targets, tasks[p].target_id, tasks[p].result)
    /\ tasks' = [tasks EXCEPT ![p].pc = Return(p), ![p].head = "unchecked",
                                ![p].changes = "unchecked",
                                ![p].staged = FALSE]
    /\ UNCHANGED taskFrame

\* ------------------------------------------------------------- environment

envFrame == << config, outside, targets, tasks, read_guard, mainPc,
               settleLeft, reloadVars >>

\* run_daemon's signal task, spawned once initialize() has returned Ok:
\* it sends on the shutdown channel (capacity 1) once, at the first SIGINT.
send_shutdown ==
    /\ mainPc \notin {"new", "init_failed", "stop_all_target_tasks", "done"}
    /\ ~shutdown_ch
    /\ shutdown_ch' = TRUE
    /\ UNCHANGED << envFrame, reload_ch, watcher >>

\* The watcher's callback: the config file was modified or created;
\* blocking_send waits while the channel (capacity 1) is full.
watcher_event ==
    /\ watcher = "up"
    /\ ~reload_ch
    /\ reload_ch' = TRUE
    /\ UNCHANGED << envFrame, shutdown_ch, watcher >>

\* ------------------------------------------------------- the timing model

\* The service's own variables, which the timing model leaves alone.
serviceVars ==
    << config, config_path, git_available, targets, tasks, read_guard, mainPc,
       settleLeft, reloadVars, shutdown_ch, reload_ch, watcher >>

\* spawn_target_task: the skipped first tick of the interval.
timer_first_tick ==
    /\ timer.pc = "first_tick"
    /\ TickReady(timer)
    /\ timer' = [timer EXCEPT
                   !.pc = "tick",
                   !.fired = timer.deadline,
                   !.deadline = NextTimeout(timer.deadline, timer.now, timer.period)]
    /\ UNCHANGED << serviceVars, fmt, status, repo, reconcile, capture,
                    validation >>

\* The loop: interval_timer.tick() completes and commit_target_static is
\* called.
timer_tick ==
    /\ timer.pc = "tick"
    /\ TickReady(timer)
    /\ timer' = [timer EXCEPT
                   !.pc = "commit",
                   !.fired = timer.deadline,
                   !.deadline = NextTimeout(timer.deadline, timer.now, timer.period),
                   !.started = timer.now,
                   !.attempts = timer.attempts + 1]
    /\ UNCHANGED << serviceVars, fmt, status, repo, reconcile, capture,
                    validation >>

\* commit_target_static returns, after any time, with any result.
timer_commit_returns ==
    /\ timer.pc = "commit"
    /\ \E r \in Results : timer' = [timer EXCEPT !.pc = "tick", !.result = r]
    /\ UNCHANGED << serviceVars, fmt, status, repo, reconcile, capture,
                    validation >>

\* A second passes; a tick that is due is taken before the clock moves on.
timer_elapse ==
    /\ timer.pc # "off"
    /\ timer.now < MaxTime
    /\ timer.pc \in {"first_tick", "tick"} => ~TickReady(timer)
    /\ timer' = [timer EXCEPT !.now = timer.now + 1]
    /\ UNCHANGED << serviceVars, fmt, status, repo, reconcile, capture,
                    validation >>

\* The service is constructed and idle.
ServiceIdle ==
    /\ config = NoConfig
    /\ config_path = FALSE
    /\ git_available = TRUE
    /\ targets = [k \in {} |-> TargetState([enabled |-> TRUE, interval_seconds |-> 1], NoHandle)]
    /\ tasks = [p \in {Main} |-> Activation("", "idle")]
    /\ read_guard = FALSE
    /\ mainPc = "new"
    /\ settleLeft = {}
    /\ loaded = NotLoaded
    /\ new_config = NoConfig
    /\ rmLeft = {}
    /\ addLeft = {}
    /\ adding = ""
    /\ init_failed = {}
    /\ shutdown_ch = FALSE
    /\ reload_ch = FALSE
    /\ watcher = "unset"

\* The service is constructed and idle; one task is spawned at some instant
\* with some interval.
TimerInit ==
    /\ ServiceIdle
    /\ fmt = FmtOff
    /\ status = StatusOff
    /\ repo = RepoOff
    /\ reconcile = ReconcileOff
    /\ capture = CaptureOff
    /\ validation = ValidationOff
    /\ \E now \in SpawnTimes, period \in Intervals : timer = interval(now, period)

TimerNext ==
    \/ timer_first_tick
    \/ timer_tick
    \/ timer_commit_returns
    \/ timer_elapse

TimerSpec == TimerInit /\ [][TimerNext]_vars

\* ------------------------------------------------ format_commit_message

\* The max_files do_commit passes: format_commit_message(&changed_files, 10).
DefaultMaxFiles == 10

\* Values of max_files the function is called with.
MaxFilesArgs == {1, 3, DefaultMaxFiles}

\* The i-th path name; two-digit numbers keep the names in String order.
Path(i) == "f" \o ToString(9 + i) \o ".txt"

\* A changed-path list as list_changed_files returns it: sorted, no
\* duplicates.
SortedPaths(S) ==
    [i \in 1..Cardinality(S) |->
        Path(CHOOSE x \in S : Cardinality({y \in S : y <= x}) = i)]

\* A faulty take that lists every path.
Take_All(s, n) == s

\* files.iter().take(max_files)
Take(s, n) == SubSeq(s, 1, IF Len(s) < n THEN Len(s) ELSE n)

\* usize::saturating_sub
saturating_sub(a, b) == IF a > b THEN a - b ELSE 0

\* [&str]::join(sep)
RECURSIVE join(_, _)
join(s, sep) ==
    IF s = << >> THEN ""
    ELSE IF Len(s) = 1 THEN s[1]
    ELSE s[1] \o sep \o join(Tail(s), sep)

format_commit_message(files, max_files) ==
    LET visible == Take(files, max_files)
        remaining == saturating_sub(Len(files), max_files)
    IN  IF remaining > 0
        THEN join(visible, ", ") \o " +" \o ToString(remaining) \o " more"
        ELSE join(visible, ", ")

\* The function is called and returns the message.
format_commit_message_call ==
    /\ fmt.pc = "call"
    /\ fmt' = [fmt EXCEPT !.pc = "done",
                          !.message = format_commit_message(fmt.files, fmt.max_files)]
    /\ UNCHANGED << serviceVars, timer, status, repo, reconcile, capture,
                    validation >>

FormatInit ==
    /\ ServiceIdle
    /\ timer = TimerOff
    /\ status = StatusOff
    /\ repo = RepoOff
    /\ reconcile = ReconcileOff
    /\ capture = CaptureOff
    /\ validation = ValidationOff
    /\ \E S \in SUBSET (1..MaxPaths), n \in MaxFilesArgs :
         fmt = [pc |-> "call", files |-> SortedPaths(S), max_files |-> n,
                message |-> ""]

FormatNext == format_commit_message_call

FormatSpec == FormatInit /\ [][FormatNext]_vars

\* --------------------------------------------------- list_changed_files

\* A string is the sequence of its bytes.  The bytes that occur, in
\* ascending order of their value; "NUL" is the byte 0.
Alphabet == << "NUL", " ", "?", "C", "M", "R", "a", "b" >>

Ord(c) == CHOOSE i \in 1..Len(Alphabet) : Alphabet[i] = c

\* Ord for String: lexicographic by bytes, a proper prefix comes first.
RECURSIVE Less(_, _)
Less(x, y) ==
    IF y = << >> THEN FALSE
    ELSE IF x = << >> THEN TRUE
    ELSE IF x[1] = y[1] THEN Less(Tail(x), Tail(y))
    ELSE Ord(x[1]) < Ord(y[1])

\* Status codes of records with one path, and of rename/copy records.
PlainCodes == { << " ", "M" >>, << "?", "?" >> }

RenameCodes == { << "R", " " >>, << "C", " " >> }

\* File names: a, b, and "a  b".
Paths == { << "a" >>, << "b" >>, << "a", " ", " ", "b" >> }

\* What git reports: a status with one path, or a rename/copy with the
\* path of its own record and the path of the record that follows.
Records ==
    [xy : PlainCodes, first : Paths, second : {<< >>}]
        \cup [xy : RenameCodes, first : Paths, second : Paths]

\* git status --porcelain -z: "XY path NUL", and for a rename or copy
\* a second NUL-terminated path.
RECURSIVE Porcelain(_)
Porcelain(records) ==
    IF records = << >> THEN << >>
    ELSE LET r == records[1]
         IN  r.xy \o << " " >> \o r.first \o << "NUL" >>
               \o (IF r.second = << >> THEN << >> ELSE r.second \o << "NUL" >>)
               \o Porcelain(Tail(records))

\* stdout.split('\0').filter(|s| !s.is_empty())
RECURSIVE split(_, _)
split(stdout, entry) ==
    LET done == IF entry = << >> THEN << >> ELSE << entry >>
    IN  IF stdout = << >> THEN done
        ELSE IF stdout[1] = "NUL" THEN done \o split(Tail(stdout), << >>)
        ELSE split(Tail(stdout), Append(entry, stdout[1]))

\* status.starts_with('R') || status.starts_with('C')
IsRenameOrCopy(st) == st[1] \in {"R", "C"}

\* A faulty loop that reads the second record of a pair as a status record.
RenameSkip_One(i) == i + 1

\* "i += 2" after a rename or copy record.
RenameSkip(i) == i + 2

\* The while loop over the entries, from entry i on (i counts from 1): the
\* paths pushed to files, in order.
RECURSIVE ParseEntries(_, _)
ParseEntries(entries, i) ==
    IF i > Len(entries) THEN << >>
    ELSE LET entry == entries[i]
         IN  IF Len(entry) < 4
             THEN ParseEntries(entries, i + 1)
             ELSE IF IsRenameOrCopy(SubSeq(entry, 1, 2)) /\ i + 1 <= Len(entries)
             THEN << entries[i + 1] >> \o ParseEntries(entries, RenameSkip(i))
             ELSE << SubSeq(entry, 4, Len(entry)) >> \o ParseEntries(entries, i + 1)

\* A faulty list_changed_files that does not sort.
sort_None(files) == files

RECURSIVE Insert(_, _)
Insert(x, sorted) ==
    IF sorted = << >> THEN << x >>
    ELSE IF Less(sorted[1], x) THEN << sorted[1] >> \o Insert(x, Tail(sorted))
    ELSE << x >> \o sorted

\* files.sort()
RECURSIVE sort(_)
sort(files) ==
    IF files = << >> THEN << >> ELSE Insert(files[1], sort(Tail(files)))

\* files.dedup(): consecutive equal elements are reduced to one.
RECURSIVE dedup(_)
dedup(files) ==
    IF Len(files) <= 1 THEN files
    ELSE IF files[1] = files[2] THEN dedup(Tail(files))
    ELSE << files[1] >> \o dedup(Tail(files))

\* list_changed_files on the output of a git status that exited with 0.
ListChangedFiles(stdout) == dedup(sort(ParseEntries(split(stdout, << >>), 1)))

\* has_changes
HasChanges(stdout) == ListChangedFiles(stdout) # << >>

\* list_changed_files is called on the output and returns.
list_changed_files_call ==
    /\ status.pc = "call"
    /\ status' = [status EXCEPT !.pc = "listed",
                                !.files = ListChangedFiles(status.stdout)]
    /\ UNCHANGED << serviceVars, timer, fmt, repo, reconcile, capture,
                    validation >>

\* has_changes is called on the same output and returns.
has_changes_call ==
    /\ status.pc = "listed"
    /\ status' = [status EXCEPT !.pc = "done",
                                !.has_changes = HasChanges(status.stdout)]
    /\ UNCHANGED << serviceVars, timer, fmt, repo, reconcile, capture,
                    validation >>

\* Sequences of up to n elements of S.
SeqUpTo(S, n) == UNION { [1..m -> S] : m \in 0..n }

StatusInit ==
    /\ ServiceIdle
    /\ timer = TimerOff
    /\ fmt = FmtOff
    /\ repo = RepoOff
    /\ reconcile = ReconcileOff
    /\ capture = CaptureOff
    /\ validation = ValidationOff
    /\ \E records \in SeqUpTo(Records, MaxRecords) :
         status = [pc |-> "call", records |-> records,
                   stdout |-> Porcelain(records), files |-> << >>,
                   has_changes |-> FALSE]

StatusNext ==
    \/ list_changed_files_call
    \/ has_changes_call

StatusSpec == StatusInit /\ [][StatusNext]_vars

\* ------------------------------------- ensure_repo_initialized, one directory

\* pub const GSD_DIR
GSD_DIR == ".gsd"

\* The metadata directories a git command in the target directory can act
\* on: the tool's own and the one of an unrelated regular repository.
GitDirs == { GSD_DIR, ".git" }

\* A faulty run_snapshot_git that acts on the regular repository.
GitDir_Standard(use_snapshot_dir) == ".git"

\* run_git_with_options: --git-dir=.gsd --work-tree=. when use_snapshot_dir,
\* git's own discovery (.git) otherwise.
GitDir(use_snapshot_dir) == IF use_snapshot_dir THEN GSD_DIR ELSE ".git"

\* A metadata directory: whether it exists, how often it was initialized,
\* its commits, whether user.name/user.email/commit.gpgsign are set.
NoRepoDir == [exists |-> FALSE, inits |-> 0, commits |-> 0, identity |-> FALSE]

RegularRepoDir == [exists |-> TRUE, inits |-> 1, commits |-> 1, identity |-> FALSE]

\* What a git command that exits with 0 does to the metadata directory.
GitEffect(m, op) ==
    IF op = "init" THEN [m EXCEPT !.exists = TRUE, !.inits = @ + 1]
    ELSE IF op = "config" THEN [m EXCEPT !.identity = TRUE]
    ELSE IF op = "commit" THEN [m EXCEPT !.commits = @ + 1]
    ELSE m

run_git_with_options(meta, op, use_snapshot_dir, exit_ok) ==
    IF exit_ok
    THEN [meta EXCEPT ![GitDir(use_snapshot_dir)] = GitEffect(@, op)]
    ELSE meta

run_snapshot_git(meta, op, exit_ok) == run_git_with_options(meta, op, TRUE, exit_ok)

\* A faulty ownership check that takes every directory for a new one.
check_repo_ownership_NoRepo(meta) == "NoRepo"

check_repo_ownership(meta) == IF meta[GSD_DIR].exists THEN "Ours" ELSE "NoRepo"

\* A text file is its lines (each a sequence of bytes) and whether the last
\* line ends with a newline; a file that does not exist reads as "".
File(lines, nl) == [lines |-> lines, nl |-> nl]

EmptyFile == File(<< >>, FALSE)

LineX == << "x" >>

LineY == << "y" >>

LineSpX == << " ", "x" >>

LineComment == << "#", "c" >>

LineGsdDir == << ".", "g", "s", "d", "/" >>

\* "# From .gsdignore"
LineHeader ==
    << "#", " ", "F", "r", "o", "m", " ", ".", "g", "s", "d", "i", "g", "n",
       "o", "r", "e" >>

\* str::trim on a line
RECURSIVE trim_start(_)
trim_start(l) == IF l # << >> /\ l[1] = " " THEN trim_start(Tail(l)) ELSE l

RECURSIVE trim_end(_)
trim_end(l) ==
    IF l # << >> /\ l[Len(l)] = " " THEN trim_end(SubSeq(l, 1, Len(l) - 1)) ELSE l

trim(l) == trim_end(trim_start(l))

\* !line.is_empty() && !line.starts_with('#')
IsPattern(l) == l # << >> /\ l[1] # "#"

\* format!("{}\n{}", gitignore_patterns, gsdignore_patterns).lines()
CombinedLines(gitignore, gsdignore) ==
    gitignore.lines
        \o (IF gitignore.lines = << >> \/ gitignore.nl THEN << << >> >> ELSE << >>)
        \o gsdignore.lines

\* A faulty merge that takes no pattern for recorded.
Known_Nothing(existing) == {}

\* setup_gsd_excludes: the patterns the exclude file already records.
Known(existing) ==
    { trim(existing.lines[i]) : i \in { j \in DOMAIN existing.lines :
                                           IsPattern(trim(existing.lines[j])) } }

\* ensure_gitignore: patterns are appended that no line of .gitignore
\* (trimmed, non-empty) equals.
ensure_gitignore(existing, patterns) ==
    LET known == { trim(existing.lines[i]) : i \in DOMAIN existing.lines } \ {<< >>}
        to_add == SelectSeq(patterns, LAMBDA pat : pat \notin known)
    IN  IF patterns = << >> \/ to_add = << >>
        THEN existing
        ELSE File(existing.lines \o to_add, TRUE)

\* setup_gsd_excludes: the patterns of .gitignore and .gsdignore that the
\* exclude file does not record yet are appended under a header line.
setup_gsd_excludes(gitignore, gsdignore, existing) ==
    LET combined == CombinedLines(gitignore, gsdignore)
        patterns == [i \in DOMAIN combined |-> trim(combined[i])]
        known == Known(existing)
        to_add == SelectSeq(patterns, LAMBDA l : IsPattern(l) /\ l \notin known)
    IN  IF (\A i \in DOMAIN patterns : patterns[i] = << >>) \/ to_add = << >>
        THEN existing
        ELSE File(existing.lines \o << LineHeader >> \o to_add, TRUE)

\* .gsdignore and .gitignore as the user may have written them, and the
\* ignore patterns a configuration may give the target.
GsdIgnoreFiles ==
    { EmptyFile, File(<< LineX >>, TRUE), File(<< LineX, LineY >>, FALSE),
      File(<< LineComment, LineSpX >>, TRUE), File(<< LineX, LineX >>, TRUE) }

GitIgnoreFiles == { EmptyFile, File(<< LineY >>, FALSE) }

PatternLists == { << >>, << LineX >> }

\* The exclude file git init creates from its template: comments only.
TemplateExclude == File(<< LineComment >>, TRUE)

\* The contents of the ignore and exclude files at a return of
\* ensure_repo_initialized.
Snapshot(r, ok) ==
    [ok |-> ok, gitignore |-> r.gitignore, gsdignore |-> r.gsdignore,
     exclude |-> r.exclude]

\* ensure_repo_initialized returns.
Returns(r, result) == [r EXCEPT !.pc = "returned", !.result = result]

\* A git command exited with a non-zero status and the function returns
\* Err(CommandFailed).
Fails(r) == [r EXCEPT !.pc = "returned", !.result = "CommandFailed", !.failed = TRUE]

repoFrame == << serviceVars, timer, fmt, status, reconcile, capture,
               validation >>

\* ensure_repo_initialized is called: create_dir_all, check_repo_ownership.
ensure_repo_initialized_call ==
    /\ repo.pc = "idle"
    /\ repo.calls < MaxCalls
    /\ \E patterns \in PatternLists :
         LET ownership == check_repo_ownership(repo.meta)
         IN  repo' = [repo EXCEPT
                        !.pc = IF ownership = "Ours" THEN "config" ELSE "init",
                        !.calls = @ + 1,
                        !.ignore_patterns = patterns,
                        !.ownership = ownership,
                        !.before = repo.meta[GSD_DIR],
                        !.failed = FALSE,
                        !.result = "none"]
    /\ UNCHANGED repoFrame

\* git init has exited; a non-zero status is returned as CommandFailed.
repo_init ==
    /\ repo.pc = "init"
    /\ \E exit_ok \in BOOLEAN :
         repo' = IF exit_ok
                 THEN [repo EXCEPT !.pc = "config",
                                   !.meta = run_snapshot_git(repo.meta, "init", TRUE),
                                   !.exclude = TemplateExclude]
                 ELSE Fails(repo)
    /\ UNCHANGED repoFrame

\* ensure_local_git_config: the three git config commands have exited; their
\* exit codes are not looked at.
ensure_local_git_config ==
    /\ repo.pc = "config"
    /\ \E exit_ok \in BOOLEAN :
         repo' = [repo EXCEPT !.pc = "gitignore",
                              !.meta = run_snapshot_git(repo.meta, "config", exit_ok),
                              !.failed = repo.failed \/ ~exit_ok]
    /\ UNCHANGED repoFrame

\* ensure_gitignore: with the configured patterns for an owned directory,
\* with ".gsd/" in front of them for a new one.
repo_gitignore ==
    /\ repo.pc = "gitignore"
    /\ LET all_patterns == IF repo.ownership = "Ours"
                           THEN repo.ignore_patterns
                           ELSE << LineGsdDir >> \o repo.ignore_patterns
       IN  repo' = [repo EXCEPT
                      !.pc = "excludes",
                      !.gitignore = ensure_gitignore(repo.gitignore, all_patterns)]
    /\ UNCHANGED repoFrame

\* setup_gsd_excludes; an owned directory is done with it.
repo_excludes ==
    /\ repo.pc = "excludes"
    /\ LET merged == [repo EXCEPT
                        !.exclude = setup_gsd_excludes(repo.gitignore,
                                                       repo.gsdignore, repo.exclude)]
       IN  repo' = IF repo.ownership = "Ours"
                   THEN Returns(merged, "Ok")
                   ELSE [merged EXCEPT !.pc = "add"]
    /\ UNCHANGED repoFrame

\* Initial commit: git add -A has exited.
repo_add ==
    /\ repo.pc = "add"
    /\ \E exit_ok \in BOOLEAN :
         repo' = IF exit_ok
                 THEN [repo EXCEPT !.pc = "commit",
                                   !.meta = run_snapshot_git(repo.meta, "add", TRUE)]
                 ELSE Fails(repo)
    /\ UNCHANGED repoFrame

\* Initial commit: git commit --allow-empty has exited.
repo_commit ==
    /\ repo.pc = "commit"
    /\ \E exit_ok \in BOOLEAN :
         repo' = IF exit_ok
                 THEN Returns([repo EXCEPT
                                 !.meta = run_snapshot_git(repo.meta, "commit", TRUE)],
                              "Ok")
                 ELSE Fails(repo)
    /\ UNCHANGED repoFrame

\* The caller goes on; the files are as this call left them.
ensure_repo_initialized_return ==
    /\ repo.pc = "returned"
    /\ repo' = [repo EXCEPT !.pc = "idle",
                            !.last = Snapshot(repo, repo.result = "Ok")]
    /\ UNCHANGED repoFrame

\* A commit cycle of the target's scheduler task, which exists once an
\* initialization has returned Ok: rev-parse, status, and with changes
\* add and commit, each of which may exit with a non-zero status.
repo_do_commit ==
    /\ repo.pc = "idle"
    /\ repo.last.ok
    /\ repo.meta[GSD_DIR].commits < MaxCommits
    /\ \E head_ok \in BOOLEAN, changed \in BOOLEAN, commit_ok \in BOOLEAN :
         LET m1 == run_snapshot_git(repo.meta, "rev-parse", head_ok)
             m2 == run_snapshot_git(m1, "status", TRUE)
             m3 == run_snapshot_git(m2, "add", TRUE)
             m4 == run_snapshot_git(m3, "commit", commit_ok)
         IN  repo' = [repo EXCEPT !.meta = IF ~head_ok THEN m1
                                           ELSE IF ~changed THEN m2
                                           ELSE m4]
    /\ UNCHANGED repoFrame

\* The user rewrites .gsdignore.
edit_gsdignore ==
    /\ repo.pc = "idle"
    /\ \E f \in GsdIgnoreFiles \ {repo.gsdignore} :
         repo' = [repo EXCEPT !.gsdignore = f]
    /\ UNCHANGED repoFrame

\* A target directory before the first call: no .gsd, possibly a regular
\* repository's .git, possibly ignore files.
RepoInit ==
    /\ ServiceIdle
    /\ timer = TimerOff
    /\ fmt = FmtOff
    /\ status = StatusOff
    /\ reconcile = ReconcileOff
    /\ capture = CaptureOff
    /\ validation = ValidationOff
    /\ \E regular \in BOOLEAN, gi \in GitIgnoreFiles, gs \in GsdIgnoreFiles :
         repo = [pc |-> "idle",
                 meta |-> [d \in GitDirs |->
                             IF d = ".git" /\ regular THEN RegularRepoDir
                             ELSE NoRepoDir],
                 gitignore |-> gi,
                 gsdignore |-> gs,
                 exclude |-> EmptyFile,
                 ignore_patterns |-> << >>,
                 ownership |-> "unchecked",
                 before |-> NoRepoDir,
                 failed |-> FALSE,
                 result |-> "none",
                 calls |-> 0,
                 last |-> [ok |-> FALSE, gitignore |-> gi, gsdignore |-> gs,
                           exclude |-> EmptyFile]]

RepoNext ==
    \/ ensure_repo_initialized_call
    \/ repo_init
    \/ ensure_local_git_config
    \/ repo_gitignore
    \/ repo_excludes
    \/ repo_add
    \/ repo_commit
    \/ ensure_repo_initialized_return
    \/ repo_do_commit
    \/ edit_gsdignore

RepoSpec == RepoInit /\ [][RepoNext]_vars

\* ------------------------------- reload_config with whole configurations

\* [git]: author_name, author_email, default_ignore_patterns
GitSettings ==
    { [author_name |-> "gsd", author_email |-> "gsd@local",
       default_ignore_patterns |-> << >>],
      [author_name |-> "me", author_email |-> "me@host",
       default_ignore_patterns |-> << LineY >>] }

\* TargetConfig with all its attributes (the path is the key); a disabled
\* target's other attributes are never read, one value stands for all.
FullTargetConfig ==
    [enabled : {TRUE}, interval_seconds : Intervals, ignore_patterns : PatternLists]
        \cup { [enabled |-> FALSE, interval_seconds |-> 1, ignore_patterns |-> << >>] }

\* Config as Config::validate accepts it: global settings and targets.
FullConfigs ==
    [git : GitSettings,
     targets : UNION { [S -> FullTargetConfig] : S \in SUBSET Keys }]

\* Result<Config, ConfigError> of Config::load_from_sources
FullLoadResults ==
    { [ok |-> TRUE, config |-> c] : c \in FullConfigs }
        \cup { [ok |-> FALSE,
                config |-> [git |-> CHOOSE g \in GitSettings : TRUE,
                            targets |-> NoConfig]] }

\* add_target: the arguments it gives ensure_repo_initialized, taken from
\* self.config.git and the target.
InitArgs(self_config, path_key, target) ==
    [path |-> path_key,
     author_name |-> self_config.git.author_name,
     author_email |-> self_config.git.author_email,
     patterns |-> self_config.git.default_ignore_patterns \o target.ignore_patterns]

\* reload_config between two of its steps: the remove loop, then the add
\* loop, then self.config = new_config and Ok(()).
Continue(rc, rm, add) ==
    IF rm # {}
    THEN [rc EXCEPT !.pc = "reload_remove", !.rmLeft = rm, !.addLeft = add,
                    !.adding = ""]
    ELSE IF add # {}
    THEN [rc EXCEPT !.pc = "reload_add", !.rmLeft = rm, !.addLeft = add,
                    !.adding = ""]
    ELSE [rc EXCEPT !.pc = "select", !.rmLeft = rm, !.addLeft = add,
                    !.adding = "", !.config = rc.new_config,
                    !.outcome = "reloaded"]

reconcileFrame == << serviceVars, timer, fmt, status, repo, capture, validation >>

\* The select loop takes a reload trigger; reload_config sleeps, loads the
\* configuration and, unless that fails, builds new_target_paths and
\* current_paths.
full_reload_config ==
    /\ reconcile.pc = "select"
    /\ reconcile.reloads < MaxReloads
    /\ \E r \in FullLoadResults :
         reconcile' =
           IF ReloadAborts(r)
           THEN [reconcile EXCEPT !.reloads = @ + 1, !.outcome = "kept"]
           ELSE Continue([reconcile EXCEPT !.reloads = @ + 1,
                                           !.outcome = "none",
                                           !.new_config = r.config,
                                           !.before = reconcile.targets,
                                           !.initialized = {}],
                         (DOMAIN reconcile.targets) \ NewTargetPaths(r.config.targets),
                         NewTargetPaths(r.config.targets))
    /\ UNCHANGED reconcileFrame

\* remove_target for a current path that is no enabled path of new_config.
full_reload_remove ==
    /\ reconcile.pc = "reload_remove"
    /\ \E path \in reconcile.rmLeft :
         reconcile' =
           Continue([reconcile EXCEPT
                       !.tasks = remove_target_abort(reconcile.targets,
                                                     reconcile.tasks, path),
                       !.targets = remove_target_entry(reconcile.targets, path)],
                    reconcile.rmLeft \ {path}, reconcile.addLeft)
    /\ UNCHANGED reconcileFrame

\* One enabled target of new_config: needs_restart and remove_target, then
\* the exists check.
full_reload_add ==
    /\ reconcile.pc = "reload_add"
    /\ \E path_key \in reconcile.addLeft :
         LET target == reconcile.new_config.targets[path_key]
             restart == NeedsRestart(reconcile.targets, path_key, target)
             reg == IF restart
                    THEN remove_target_entry(reconcile.targets, path_key)
                    ELSE reconcile.targets
             ts  == IF restart
                    THEN remove_target_abort(reconcile.targets, reconcile.tasks,
                                             path_key)
                    ELSE reconcile.tasks
             rc  == [reconcile EXCEPT !.targets = reg, !.tasks = ts]
         IN  reconcile' =
               IF Exists(reg, path_key)
               THEN Continue(rc, {}, reconcile.addLeft \ {path_key})
               ELSE [rc EXCEPT !.pc = "add_target", !.adding = path_key]
    /\ UNCHANGED reconcileFrame

\* add_target: ensure_repo_initialized with the settings of self.config; on
\* Ok the task is spawned and the entry inserted, on Err it returns.
full_add_target ==
    /\ reconcile.pc = "add_target"
    /\ \E ok \in BOOLEAN :
         LET path_key == reconcile.adding
             target == reconcile.new_config.targets[path_key]
             called == [reconcile EXCEPT
                          !.initialized =
                              @ \cup { InitArgs(reconcile.config, path_key, target) }]
             ts == spawn_target_task(reconcile.tasks, path_key, target)
         IN  reconcile' =
               IF ok
               THEN Continue([called EXCEPT
                                !.tasks = ts,
                                !.targets = add_target_entry(reconcile.targets, ts,
                                                             path_key, target)],
                             {}, reconcile.addLeft \ {path_key})
               ELSE Continue(called, {}, reconcile.addLeft \ {path_key})
    /\ UNCHANGED reconcileFrame

\* The service in its select loop after a startup that registered no
\* target: the configuration has no enabled target.
ReconcileInit ==
    /\ ServiceIdle
    /\ timer = TimerOff
    /\ fmt = FmtOff
    /\ status = StatusOff
    /\ repo = RepoOff
    /\ capture = CaptureOff
    /\ validation = ValidationOff
    /\ \E c \in { x \in FullConfigs : NewTargetPaths(x.targets) = {} } :
         reconcile = [pc |-> "select", reloads |-> 0, outcome |-> "none",
                      config |-> c, new_config |-> c,
                      targets |-> [k \in {} |-> TargetState(
                                      [enabled |-> TRUE, interval_seconds |-> 1,
                                       ignore_patterns |-> << >>], NoHandle)],
                      before |-> [k \in {} |-> TargetState(
                                      [enabled |-> TRUE, interval_seconds |-> 1,
                                       ignore_patterns |-> << >>], NoHandle)],
                      tasks |-> [p \in {Main} |-> Activation("", "idle")],
                      rmLeft |-> {}, addLeft |-> {}, adding |-> "",
                      initialized |-> {}]

ReconcileNext ==
    \/ full_reload_config
    \/ full_reload_remove
    \/ full_reload_add
    \/ full_add_target

ReconcileSpec == ReconcileInit /\ [][ReconcileNext]_vars

\* --------------------------------- run_git_with_options, the captured output

captureFrame == << serviceVars, timer, fmt, status, repo, reconcile, validation >>

Min(a, b) == IF a < b THEN a ELSE b

\* Bytes written to the stdout pipe and not read from it.
InPipe(c) == c.written - c.stdout_len

\* The git child writes the next part of its output; write blocks while
\* the pipe is full.
git_write ==
    /\ capture.pc \in {"spawned", "read"}
    /\ ~capture.exited
    /\ \E n \in 1..Min(capture.output - capture.written,
                        PipeCapacity - InPipe(capture)) :
         capture' = [capture EXCEPT !.written = @ + n]
    /\ UNCHANGED captureFrame

\* The child has written everything and exits: stdout and stderr reach
\* end of file.
git_exit ==
    /\ capture.pc \in {"spawned", "read"}
    /\ ~capture.exited
    /\ capture.written = capture.output
    /\ capture' = [capture EXCEPT !.exited = TRUE]
    /\ UNCHANGED captureFrame

\* stdout_handle.read(&mut stdout_buf), one read into a buffer of max_bytes
\* bytes: it completes as soon as the pipe holds data, with what the pipe
\* holds and the buffer takes, or with 0 at end of file.
stdout_read ==
    /\ capture.pc = "spawned"
    /\ capture.written > 0 \/ capture.exited
    /\ capture' = [capture EXCEPT !.pc = "read",
                                  !.stdout_len = Min(capture.written, capture.max_bytes)]
    /\ UNCHANGED captureFrame

\* let truncated = stdout_len >= max_bytes
Truncated(stdout_len, max_bytes) == stdout_len >= max_bytes

\* tokio::join! is through once stderr_handle.read_to_end has seen end of
\* file; child.wait() returns and the GitCommandResult is built.
run_git_with_options_return ==
    /\ capture.pc = "read"
    /\ capture.exited
    /\ capture' = [capture EXCEPT
                      !.pc = "done",
                      !.truncated = Truncated(capture.stdout_len, capture.max_bytes)]
    /\ UNCHANGED captureFrame

\* cmd.spawn(): a child that will write some number of bytes to stdout,
\* under some cap.
CaptureInit ==
    /\ ServiceIdle
    /\ timer = TimerOff
    /\ fmt = FmtOff
    /\ status = StatusOff
    /\ repo = RepoOff
    /\ reconcile = ReconcileOff
    /\ validation = ValidationOff
    /\ \E output \in 0..MaxOutput, max_bytes \in 1..MaxBytes :
         capture = [pc |-> "spawned", output |-> output, max_bytes |-> max_bytes,
                    written |-> 0, exited |-> FALSE, stdout_len |-> 0,
                    truncated |-> FALSE]

CaptureNext ==
    \/ git_write
    \/ git_exit
    \/ stdout_read
    \/ run_git_with_options_return

CaptureSpec == CaptureInit /\ [][CaptureNext]_vars

\* ------------------------------------------------------- Config::validate

\* const DEFAULT_SCHEMA_VERSION
DEFAULT_SCHEMA_VERSION == "1"

SchemaVersions == { DEFAULT_SCHEMA_VERSION, "2" }

\* Target paths as their bytes: /a, /b, /a/ and the relative a.
TargetPaths ==
    { << "/", "a" >>, << "/", "b" >>, << "/", "a", "/" >>, << "a" >> }

\* Path::is_absolute on Unix: the path has a root.
is_absolute(path) == path # << >> /\ path[1] = "/"

\* The names between the separators of a path; empty ones are no
\* components.
RECURSIVE Names(_, _)
Names(path, name) ==
    LET done == IF name = << >> THEN << >> ELSE << name >>
    IN  IF path = << >> THEN done
        ELSE IF path[1] = "/" THEN done \o Names(Tail(path), << >>)
        ELSE Names(Tail(path), Append(name, path[1]))

\* Path::components: the root, then the names.  Eq and Hash of PathBuf
\* compare components, so /a and /a/ are the same path.
components(path) == << is_absolute(path) >> \o Names(path, << >>)

\* A faulty duplicate check that takes every path for new.
seen_paths_insert_Always(seen_paths, path) == TRUE

\* HashSet::insert(&target.path): true when the path was not in the set.
seen_paths_insert(seen_paths, path) == components(path) \notin seen_paths

\* validate_for_daemon, the loop over self.targets from target i on: the
\* first error, or Ok.
RECURSIVE ValidateTargets(_, _, _)
ValidateTargets(ts, i, seen_paths) ==
    IF i > Len(ts) THEN "Ok"
    ELSE IF ~is_absolute(ts[i].path) THEN "target path must be absolute"
    ELSE IF ~seen_paths_insert(seen_paths, ts[i].path) THEN "duplicate target path"
    ELSE IF ts[i].interval_seconds = 0 THEN "interval_seconds must be > 0"
    ELSE ValidateTargets(ts, i + 1, seen_paths \cup { components(ts[i].path) })

validate_for_daemon(c, require_targets) ==
    IF c.schema_version # DEFAULT_SCHEMA_VERSION THEN "unsupported schema_version"
    ELSE IF require_targets /\ c.targets = << >>
    THEN "at least one target must be configured"
    ELSE ValidateTargets(c.targets, 1, {})

validate(c) == validate_for_daemon(c, FALSE)

\* Config::validate is called and returns.
validate_call ==
    /\ validation.pc = "call"
    /\ validation' = [validation EXCEPT !.pc = "done",
                                        !.result = validate(validation.config)]
    /\ UNCHANGED << serviceVars, timer, fmt, status, repo, reconcile, capture >>

\* A parsed configuration: interval_seconds is a u64, 0 included.
ParsedTargets ==
    [path : TargetPaths, interval_seconds : {0, 1}, enabled : BOOLEAN]

ValidateInit ==
    /\ ServiceIdle
    /\ timer = TimerOff
    /\ fmt = FmtOff
    /\ status = StatusOff
    /\ repo = RepoOff
    /\ reconcile = ReconcileOff
    /\ capture = CaptureOff
    /\ \E v \in SchemaVersions, ts \in SeqUpTo(ParsedTargets, MaxTargets) :
         validation = [pc |-> "call",
                       config |-> [schema_version |-> v, targets |-> ts],
                       result |-> "none"]

ValidateNext == validate_call

ValidateSpec == ValidateInit /\ [][ValidateNext]_vars

\* -------------------------------------------------------------------- Next

MainNext ==
    \/ initialize
    \/ run
    \/ commit_all_targets
    \/ start_all_target_tasks
    \/ select_reload
    \/ reload_load
    \/ reload_match
    \/ reload_remove
    \/ reload_add
    \/ add_target
    \/ add_target_insert
    \/ stop_all_target_tasks

TaskNext ==
    \/ \E p \in DOMAIN tasks : first_tick(p)
    \/ \E p \in DOMAIN tasks : tick(p)
    \/ \E p \in DOMAIN tasks : commit_target_static_begin(p)
    \/ \E p \in DOMAIN tasks : is_detached_head(p)
    \/ \E p \in DOMAIN tasks : has_changes(p)
    \/ \E p \in DOMAIN tasks : list_changed_files(p)
    \/ \E p \in DOMAIN tasks : commit_all_add(p)
    \/ \E p \in DOMAIN tasks : commit_all_commit(p)
    \/ \E p \in DOMAIN tasks : commit_target_static_end(p)

EnvNext ==
    \/ send_shutdown
    \/ watcher_event

Next == MainNext \/ select_shutdown \/ TaskNext \/ EnvNext

Spec == Init /\ [][Next]_vars

\* The steps of run()'s own call of commit_target_static.
SettleNext ==
    \/ commit_target_static_begin(Main)
    \/ is_detached_head(Main)
    \/ has_changes(Main)
    \/ list_changed_files(Main)
    \/ commit_all_add(Main)
    \/ commit_all_commit(Main)
    \/ commit_target_static_end(Main)

\* The main task is always scheduled (tokio's runtime polls a ready task),
\* it is granted the registry lock when the lock stays free, and the git
\* commands run() itself waits for during the settle pass return;
\* select! picks among ready branches at random, so a waiting shutdown
\* message is taken eventually.  Scheduler tasks get no fairness: a git
\* child process of theirs may hang for ever.
FairSpec ==
    /\ Spec
    /\ WF_vars(MainNext)
    /\ WF_vars(SettleNext)
    /\ SF_vars(select_shutdown)

\* ------------------------------------------------------------------ claims

\* An activation of commit_target_static that is inside do_commit.
InDoCommit(p) == Live(p) /\ tasks[p].pc \in DoCommitPcs

\* A step of the main task inside reload_config (a scheduler task's step
\* leaves all of these alone).
ReloadStep ==
    /\ mainPc \in {"reload_loaded", "reload_remove", "reload_add", "add_target",
                   "add_target_insert"}
    /\ << mainPc, rmLeft, addLeft, adding >>' # << mainPc, rmLeft, addLeft, adding >>

\* The configuration the running reload reconciles against.
ReloadTargets == IF mainPc = "reload_loaded" THEN loaded.targets ELSE new_config

\* k is registered and the running reload's configuration has it enabled.
Kept(k) ==
    /\ k \in DOMAIN targets
    /\ k \in DOMAIN ReloadTargets
    /\ ReloadTargets[k].enabled

SameInterval(k) ==
    ReloadTargets[k].interval_seconds = targets[k].config.interval_seconds

\* C1: single-flight.  In every reachable state, whatever the interleaving
\* of ticks, the settle pass and reloads, no two running invocations of
\* do_commit are for the same target key.
SingleFlight ==
    \A p, q \in DOMAIN tasks :
        (InDoCommit(p) /\ InDoCommit(q) /\ tasks[p].target_id = tasks[q].target_id)
            => p = q

\* C1, the case: a task was aborted inside do_commit (its target was
\* removed and re-added by a reload) and the new task for the same key is
\* inside do_commit.
SingleFlightAfterRestart ==
    \E p, q \in Handles :
        /\ tasks[p].aborted
        /\ tasks[p].pc = "cancelled_in_do_commit"
        /\ InDoCommit(q)
        /\ tasks[q].target_id = tasks[p].target_id

\* C2: startup progress.  Once initialize() has registered at least one
\* target, run() eventually gets through the settle pass and the start of
\* the scheduler tasks and reaches the select loop.
StartupProgress ==
    (mainPc = "initialized" /\ DOMAIN targets # {}) ~> (mainPc = "select")

\* C3: shutdown liveness.  Once the shutdown signal has been sent, run()
\* eventually has aborted every scheduler task and returned.
ShutdownLiveness ==
    shutdown_ch ~> (mainPc = "done" /\ \A h \in Handles : tasks[h].aborted)

\* C4: a scheduler task that waits for its next tick never leaves the
\* in-flight flag of its registered target set, whatever do_commit returned.
InFlightCleared ==
    \A p \in Handles :
        (Live(p) /\ tasks[p].pc = "tick" /\ tasks[p].target_id \in DOMAIN targets)
            => ~targets[tasks[p].target_id].in_flight

\* C4, the case: do_commit has returned an error and the task waits for the
\* next tick with the flag of its registered target cleared.
ClearedAfterError ==
    \E p \in Handles :
        /\ Live(p)
        /\ tasks[p].pc = "tick"
        /\ tasks[p].result \in {"DetachedHead", "CommandFailed"}
        /\ tasks[p].target_id \in DOMAIN targets
        /\ ~targets[tasks[p].target_id].in_flight

\* C5: reconciliation convergence.  When the service is back in the select
\* loop and no initialization of the last pass (initialize or a reload that
\* loaded a valid configuration) has failed, the registry's keys are exactly
\* the enabled targets of the stored configuration.
ReconciliationConverges ==
    (mainPc = "select" /\ init_failed = {})
        => DOMAIN targets = { k \in DOMAIN config : config[k].enabled }

\* C5, the case: reloads have added targets and removed or restarted one
\* (an aborted task is left behind), and the registry, not empty, holds
\* exactly the enabled targets.
ConvergedAfterReload ==
    /\ mainPc = "select"
    /\ init_failed = {}
    /\ DOMAIN targets # {}
    /\ DOMAIN targets = { k \in DOMAIN config : config[k].enabled }
    /\ \E h \in Handles : tasks[h].aborted

\* C6: a step of reload_config leaves a registered target that the new
\* configuration keeps enabled with the same interval untouched: the same
\* entry (config, in_flight, task_handle), and its task exactly where it was.
UnchangedUntouched ==
    [][ \A k \in Keys :
          (ReloadStep /\ Kept(k) /\ SameInterval(k))
              => /\ k \in DOMAIN targets'
                 /\ targets'[k] = targets[k]
                 /\ tasks'[targets[k].task_handle] = tasks[targets[k].task_handle]
      ]_vars

\* C6, the case: a reload that has its add loop under way while a target
\* that was registered before it, and that it keeps with the same interval,
\* has a commit in progress.
UnchangedDuringCommit ==
    /\ mainPc = "add_target"
    /\ \E k \in addLeft \ {adding} :
         /\ Kept(k)
         /\ SameInterval(k)
         /\ targets[k].in_flight
         /\ InDoCommit(targets[k].task_handle)

\* C7: when the add loop of reload_config visits a registered target whose
\* interval differs, the step removes the entry, aborts its task and goes on
\* to add_target; an add_target whose initialization succeeds spawns a task
\* with the new interval and its first tick ahead, and then registers an
\* entry with the new configuration, in_flight false and the handle of that
\* task, which no other entry has; an aborted task never moves again.
IntervalChangeRestarts ==
    [][ /\ \A k \in Keys :
             (/\ mainPc = "reload_add"
              /\ ReloadStep
              /\ k \in (addLeft \ addLeft') \cup {adding'}
              /\ Kept(k)
              /\ ~SameInterval(k))
                 => /\ mainPc' = "add_target"
                    /\ adding' = k
                    /\ k \notin DOMAIN targets'
                    /\ tasks'[targets[k].task_handle].aborted
        /\ (mainPc = "add_target" /\ ReloadStep /\ mainPc' = "add_target_insert")
             => \E h \in (DOMAIN tasks') \ (DOMAIN tasks) :
                    /\ ~tasks'[h].aborted
                    /\ tasks'[h].target_id = adding
                    /\ tasks'[h].pc = "first_tick"
                    /\ tasks'[h].interval_seconds
                         = new_config[adding].interval_seconds
        /\ (mainPc = "add_target_insert" /\ ReloadStep)
             => /\ adding \in DOMAIN targets'
                /\ targets'[adding].config = new_config[adding]
                /\ ~targets'[adding].in_flight
                /\ targets'[adding].task_handle # NoHandle
                /\ Live(targets'[adding].task_handle)
                /\ tasks[targets'[adding].task_handle].target_id = adding
                /\ tasks[targets'[adding].task_handle].interval_seconds
                     = new_config[adding].interval_seconds
                /\ \A k \in DOMAIN targets :
                     targets[k].task_handle # targets'[adding].task_handle
        /\ \A h \in Handles : tasks[h].aborted => tasks'[h] = tasks[h]
      ]_vars

\* C7, the case: a target is registered with a live task at one interval
\* while the task it had before, at another interval, is aborted.
RestartedAtNewInterval ==
    \E k \in DOMAIN targets : \E old \in Handles :
        LET h == targets[k].task_handle
        IN  /\ h # NoHandle
            /\ Live(h)
            /\ tasks[h].interval_seconds = targets[k].config.interval_seconds
            /\ tasks[old].aborted
            /\ tasks[old].target_id = k
            /\ tasks[old].interval_seconds # tasks[h].interval_seconds

\* C8: when the service is back in the select loop, a key that the stored
\* configuration does not have enabled (missing or disabled) has no entry in
\* the registry, and every task that was spawned for it is aborted.
RemovedAreGone ==
    mainPc = "select"
        => \A k \in Keys :
             ~(k \in DOMAIN config /\ config[k].enabled)
                => /\ k \notin DOMAIN targets
                   /\ \A h \in Handles :
                        tasks[h].target_id = k => tasks[h].aborted

\* C8, the case: a reload has disabled a target that was registered: the
\* stored configuration has it disabled, its task is aborted and it has no
\* entry.
DisabledIsGone ==
    /\ mainPc = "select"
    /\ \E k \in DOMAIN config : \E h \in Handles :
         /\ ~config[k].enabled
         /\ tasks[h].target_id = k
         /\ tasks[h].aborted
         /\ k \notin DOMAIN targets

\* C9: when load_from_sources has failed, the step reload_config takes goes
\* back to the select loop and leaves the registry, the tasks and the stored
\* configuration as they were.
FailedReloadIgnored ==
    [][ (mainPc = "reload_loaded" /\ ~loaded.ok /\ ReloadStep)
          => /\ mainPc' = "select"
             /\ targets' = targets
             /\ tasks' = tasks
             /\ config' = config
      ]_vars

\* C9, the case: load_from_sources has failed while a target is registered
\* and its task is in the middle of a commit.
FailedReloadDuringCommit ==
    /\ mainPc = "reload_loaded"
    /\ ~loaded.ok
    /\ \E k \in DOMAIN targets :
         /\ targets[k].in_flight
         /\ InDoCommit(targets[k].task_handle)

\* C10: a cycle stages or commits (git add, git commit) only when its
\* HEAD-detachment check found HEAD attached; a cycle that found HEAD
\* detached ends without changes being looked for.
DetachedNeverCommits ==
    \A p \in DOMAIN tasks :
        (Live(p) /\ tasks[p].pc \in {"has_changes", "list_changed_files",
                                      "git_add", "git_commit"})
            => tasks[p].head = "attached"

\* C10, the case: a cycle has found HEAD detached and is about to return
\* DetachedHead.
DetachedCycleEnds ==
    \E p \in DOMAIN tasks :
        /\ Live(p)
        /\ tasks[p].pc = "lock_end"
        /\ tasks[p].head = "detached"
        /\ tasks[p].result = "DetachedHead"

\* k is registered and its entry holds the handle of a task that runs.
Scheduled(k) ==
    /\ k \in DOMAIN targets
    /\ targets[k].task_handle # NoHandle
    /\ Live(targets[k].task_handle)

\* C11: partial-failure domain.  A target whose initialization failed in
\* the last pass has no entry, a registered target is an enabled one whose
\* initialization did not fail, a failing add_target changes neither the
\* registry nor the tasks, and when initialize() has registered some targets
\* while others failed, each registered one eventually has its scheduler
\* task.
PartialFailureDomain ==
    /\ [](init_failed \cap DOMAIN targets = {})
    /\ [][ (mainPc = "add_target" /\ ReloadStep /\ mainPc' # "add_target_insert")
            => (targets' = targets /\ tasks' = tasks) ]_vars
    /\ \A k \in Keys :
         (mainPc = "initialized" /\ init_failed # {} /\ k \in DOMAIN targets)
             ~> Scheduled(k)

\* C12: when git cannot be run, initialize() does not get past its
\* GitNotAvailable return: no target is registered and no task is spawned,
\* ever.
GitUnavailableIsFatal ==
    ~git_available
        => /\ mainPc \in {"new", "init_failed"}
           /\ DOMAIN targets = {}
           /\ Handles = {}

\* C12, the case: initialize() has failed for a configuration that has
\* enabled targets.
FailedWithoutGit ==
    /\ mainPc = "init_failed"
    /\ ~git_available
    /\ \E k \in DOMAIN config : config[k].enabled

\* C13: overlapping ticks are skipped.  Every attempt starts at the
\* deadline of the tick that triggers it, a regular interval boundary: a
\* tick that fell due while the previous attempt was still running triggers
\* no attempt afterwards.
OverlappingTicksSkipped ==
    timer.pc = "commit" => timer.started = timer.fired

\* C14: the first tick is discarded.  No attempt is made before one full
\* interval has passed since the task was spawned, and the first attempt
\* starts exactly one interval after the spawn.
FirstAttemptAfterInterval ==
    /\ timer.attempts >= 1 => timer.now >= timer.spawned + timer.period
    /\ (timer.pc = "commit" /\ timer.attempts = 1)
          => timer.started = timer.spawned + timer.period

\* C14, the case: a task spawned after the clock's origin is in its first
\* attempt.
FirstAttemptRunning ==
    /\ timer.pc = "commit"
    /\ timer.attempts = 1
    /\ timer.spawned > 0
    /\ timer.started = timer.spawned + timer.period

\* C15: a failed cycle is not retried at once.  The task lives on, and the
\* attempt that follows a failed one starts at a regular tick, the deadline
\* of the tick that triggers it.
FailedCycleWaits ==
    /\ timer.pc \in {"first_tick", "tick", "commit"}
    /\ (timer.pc = "commit" /\ timer.result \in {"DetachedHead", "CommandFailed"})
          => timer.started = timer.fired

\* The next step of scheduler task q can be taken now.
CanStep(q) ==
    /\ tasks[q].pc = "first_tick" => ENABLED first_tick(q)
    /\ tasks[q].pc = "tick" => ENABLED tick(q)
    /\ tasks[q].pc = "lock_begin" => ENABLED commit_target_static_begin(q)
    /\ tasks[q].pc = "is_detached_head" => ENABLED is_detached_head(q)
    /\ tasks[q].pc = "has_changes" => ENABLED has_changes(q)
    /\ tasks[q].pc = "list_changed_files" => ENABLED list_changed_files(q)
    /\ tasks[q].pc = "git_add" => ENABLED commit_all_add(q)
    /\ tasks[q].pc = "git_commit" => ENABLED commit_all_commit(q)
    /\ tasks[q].pc = "lock_end" => ENABLED commit_target_static_end(q)

\* C16: targets are independent.  Wherever the other scheduler tasks
\* stand, inside a slow or hung do_commit or after a failure, a live
\* scheduler task is never kept from its next step: its tick, the registry
\* lock of its commit_target_static and its git commands wait for no other
\* task.
TargetsIndependent ==
    \A q \in Handles : Live(q) => CanStep(q)

\* C16, the case: one task is inside git commit (slow or hung) while the
\* task of another target, after a failed cycle, waits for the registry
\* lock to begin its next attempt.
AttemptBesideHungCommit ==
    \E p, q \in Handles :
        /\ Live(p)
        /\ tasks[p].pc = "git_commit"
        /\ Live(q)
        /\ tasks[q].target_id # tasks[p].target_id
        /\ tasks[q].pc = "lock_begin"

\* C17: no orphaned tasks.  A step that removes a key from the registry
\* aborts, in that step, the task whose handle the entry held; and whenever
\* the main loop is idle in its select, every live scheduler task is the
\* one whose handle is stored under its key.
NoOrphanedTasks ==
    /\ [][ \A k \in DOMAIN targets :
              (k \notin DOMAIN targets' /\ targets[k].task_handle # NoHandle)
                  => tasks'[targets[k].task_handle].aborted ]_vars
    /\ [](mainPc = "select"
            => \A h \in Handles :
                 Live(h) => /\ tasks[h].target_id \in DOMAIN targets
                            /\ targets[tasks[h].target_id].task_handle = h)

\* C17, the case: the main loop is idle, a removed key's task is aborted
\* and has no entry, and another task is live under its key.
RemovedTaskAborted ==
    /\ mainPc = "select"
    /\ \E h \in Handles :
         tasks[h].aborted /\ tasks[h].target_id \notin DOMAIN targets
    /\ \E h \in Handles : Live(h) /\ Scheduled(tasks[h].target_id)

\* The configuration most recently applied: the startup configuration, or
\* the configuration the last successful load of a reload returned.
AppliedConfig ==
    IF mainPc = "reload_loaded" /\ loaded.ok
    THEN loaded.targets
    ELSE IF mainPc \in {"reload_remove", "reload_add", "add_target",
                        "add_target_insert"}
    THEN new_config
    ELSE config

\* C18: in every reachable state every registered key is an enabled target
\* of the configuration most recently applied.
RegistryWithinApplied ==
    \A k \in DOMAIN targets :
        k \in DOMAIN AppliedConfig /\ AppliedConfig[k].enabled

\* C19: when run() has returned after a shutdown signal, no entry of the
\* registry holds a task handle and every scheduler task is aborted.
ReturnedWithAllAborted ==
    mainPc = "done"
        => /\ \A k \in DOMAIN targets : targets[k].task_handle = NoHandle
           /\ \A h \in Handles : tasks[h].aborted

\* C19, the case: run() has returned while a commit was in progress: the
\* task was aborted inside do_commit and its entry is still marked
\* in flight.
ReturnedDuringCommit ==
    /\ mainPc = "done"
    /\ \E h \in Handles :
         /\ tasks[h].pc = "cancelled_in_do_commit"
         /\ tasks[h].target_id \in DOMAIN targets
         /\ targets[tasks[h].target_id].in_flight
         /\ targets[tasks[h].target_id].task_handle = NoHandle

\* C20: a shutdown signal is never lost.  A message sent on the shutdown
\* channel is eventually received by the select loop of run().
SignalNeverLost ==
    shutdown_ch ~> (mainPc \in {"stop_all_target_tasks", "done"})

\* The running reload has loaded the configuration that is already applied,
\* and every enabled target of it is registered.
SameConfigAgain ==
    /\ mainPc = "reload_loaded" => loaded.ok
    /\ ReloadTargets = config
    /\ DOMAIN targets = NewTargetPaths(config)

\* C21: reconciliation is idempotent.  When a reload loads the configuration
\* that the previous one applied, and every enabled target of it is
\* registered, no step of that reload changes anything: the registry (keys,
\* configs, in-flight flags, handles) and all tasks stay as they are, no
\* initialization is started, and the stored configuration is the same.
IdempotentReload ==
    [][ (ReloadStep /\ SameConfigAgain)
            => /\ targets' = targets
               /\ tasks' = tasks
               /\ config' = config
               /\ mainPc' \in {"reload_add", "select"}
      ]_vars

\* C21, the case: the add loop of such a reload visits a registered target
\* while that target has a commit in progress.
SameConfigDuringCommit ==
    /\ mainPc = "reload_add"
    /\ SameConfigAgain
    /\ \E k \in addLeft :
         /\ targets[k].in_flight
         /\ InDoCommit(targets[k].task_handle)

\* C29: a commit cycle issues its engine operations in one order: detach
\* check, change detection, path enumeration, stage, commit.  Each is issued
\* only from the one before it; enumeration, stage and commit only after
\* the detach check found HEAD attached and change detection found changes;
\* a cycle whose change detection finds nothing ends there with Ok.
CycleOrder ==
    /\ [](\A p \in DOMAIN tasks :
            Live(p) =>
              /\ tasks[p].pc = "has_changes"
                    => tasks[p].head = "attached" /\ tasks[p].changes = "unchecked"
              /\ tasks[p].pc \in {"list_changed_files", "git_add", "git_commit"}
                    => tasks[p].head = "attached" /\ tasks[p].changes = "changed"
              /\ (tasks[p].pc = "lock_end" /\ tasks[p].changes = "clean")
                    => tasks[p].result = "Ok")
    /\ [][ \A p \in DOMAIN tasks :
            tasks'[p].pc # tasks[p].pc =>
              /\ tasks'[p].pc = "is_detached_head" => tasks[p].pc = "lock_begin"
              /\ tasks'[p].pc = "has_changes" => tasks[p].pc = "is_detached_head"
              /\ tasks'[p].pc = "list_changed_files" => tasks[p].pc = "has_changes"
              /\ tasks'[p].pc = "git_add" => tasks[p].pc = "list_changed_files"
              /\ tasks'[p].pc = "git_commit" => tasks[p].pc = "git_add"
              /\ tasks'[p].changes = "clean" => tasks'[p].pc = "lock_end"
      ]_vars

\* C29, the case: one cycle has reached git commit while another target's
\* cycle has ended at change detection with nothing to commit.
CommitBesideCleanCycle ==
    \E p, q \in Handles :
        /\ Live(p) /\ Live(q)
        /\ tasks[p].pc = "git_commit"
        /\ tasks[q].pc = "lock_end"
        /\ tasks[q].changes = "clean"

\* The main task has an engine child process under way: a git command of
\* do_commit in the settle pass, or ensure_repo_initialized in add_target.
MainEngineIO == tasks[Main].pc \in DoCommitPcs \/ mainPc = "add_target"

MessageListsFirstN ==
    fmt.pc = "done" =>
        LET n == Len(fmt.files)
            N == fmt.max_files
        IN  /\ N >= 1
            /\ n <= N => fmt.message = join(fmt.files, ", ")
            /\ n > N =>
                 fmt.message =
                   join([i \in 1..N |-> fmt.files[i]], ", ")
                       \o " +" \o ToString(n - N) \o " more"

\* C26, the case: 15 changed paths with N = 10.
FifteenPathsFiveMore ==
    /\ fmt.pc = "done"
    /\ fmt.max_files = 10
    /\ Len(fmt.files) = 15
    /\ fmt.message =
         "f10.txt, f11.txt, f12.txt, f13.txt, f14.txt, f15.txt, f16.txt, f17.txt, f18.txt, f19.txt +5 more"

Range(f) == { f[i] : i \in DOMAIN f }

\* The path a record is to contribute: the path of the second record for a
\* rename or copy, its own path otherwise.
Retained(r) == IF r.second = << >> THEN r.first ELSE r.second

\* C27: status-record parsing.  A record whose status starts with R or C
\* contributes the path of the record that follows it and not its own; every
\* other record contributes its own path; nothing else is contributed, so
\* the second record of a pair is never read as a status record.
RenameKeepsSecondRecord ==
    status.pc \in {"listed", "done"} =>
        Range(status.files) = { Retained(r) : r \in Range(status.records) }

\* C27, the case: a rename whose second record is the path "a  b", which
\* read as a status record would contribute "b"; its own path is dropped.
RenamePairParsed ==
    /\ status.pc = "done"
    /\ \E i \in DOMAIN status.records :
         /\ status.records[i].xy[1] = "R"
         /\ status.records[i].second = << "a", " ", " ", "b" >>
         /\ status.records[i].first = << "a" >>
    /\ status.files = << << "a", " ", " ", "b" >> >>

\* The records in the order given by the permutation f.
Reordered(records, f) == [i \in DOMAIN records |-> records[f[i]]]

\* C28: the list is strictly ascending in String order (hence without
\* duplicates), is the same for every order of the same records, and
\* has_changes is true exactly when the list is not empty.
SortedAndOrderIndependent ==
    status.pc = "done" =>
        /\ \A i \in 1..(Len(status.files) - 1) :
               Less(status.files[i], status.files[i + 1])
        /\ \A f \in Permutations(DOMAIN status.records) :
               ListChangedFiles(Porcelain(Reordered(status.records, f)))
                   = status.files
        /\ status.has_changes = (status.files # << >>)

\* C28, the case: three records given in descending order of their paths,
\* two of which contribute the same path.
DescendingWithDuplicate ==
    /\ status.pc = "done"
    /\ Len(status.records) = 3
    /\ Retained(status.records[1]) = << "b" >>
    /\ Retained(status.records[2]) = << "b" >>
    /\ Retained(status.records[3]) = << "a" >>
    /\ status.files = << << "a" >>, << "b" >> >>
    /\ status.has_changes

\* A call of ensure_repo_initialized is under way or has just returned.
InCall ==
    repo.pc \in {"init", "config", "gitignore", "excludes", "add", "commit",
                 "returned"}

Recorded(f) ==
    { trim(f.lines[i]) : i \in DOMAIN f.lines } \ { << >>, LineComment, LineHeader }

\* C23: the merge into the exclude file is append-only and idempotent.  No
\* step removes or rewrites a line the file had; a line a step appends
\* is no pattern the file recorded; and a call that returns with .gitignore
\* and .gsdignore as the last successful call left them leaves the exclude
\* file as that call left it.
ExcludeAppendOnly ==
    /\ [][ /\ Len(repo'.exclude.lines) >= Len(repo.exclude.lines)
           /\ SubSeq(repo'.exclude.lines, 1, Len(repo.exclude.lines))
                  = repo.exclude.lines
           /\ \A i \in (Len(repo.exclude.lines) + 1)..Len(repo'.exclude.lines) :
                  trim(repo'.exclude.lines[i]) \notin Recorded(repo.exclude)
      ]_vars
    /\ []((/\ repo.pc = "returned"
           /\ repo.last.ok
           /\ repo.gitignore = repo.last.gitignore
           /\ repo.gsdignore = repo.last.gsdignore)
              => repo.exclude = repo.last.exclude)

\* C23, the case: a repeated call has returned with unchanged ignore files
\* of which .gsdignore holds the pattern x twice, and the exclude file
\* records patterns of an earlier merge.
RepeatedMergeReturned ==
    /\ repo.pc = "returned"
    /\ repo.calls >= 2
    /\ repo.last.ok
    /\ repo.gitignore = repo.last.gitignore
    /\ repo.gsdignore = repo.last.gsdignore
    /\ repo.gsdignore = File(<< LineX, LineX >>, TRUE)
    /\ LineX \in Recorded(repo.exclude)

\* C24: isolation.  No step changes the metadata directory of a regular
\* repository in the target directory (.git): every git command the
\* service issues acts on .gsd; and a directory that has .git and no .gsd
\* is classified NoRepo.
RegularRepoUntouched ==
    /\ [][ repo'.meta[".git"] = repo.meta[".git"] ]_vars
    /\ []((InCall /\ repo.meta[".git"].exists /\ ~repo.before.exists)
              => repo.ownership = "NoRepo")

\* C24, the case: beside a regular repository the directory has been
\* initialized and a commit cycle has committed.
CommittedBesideRegularRepo ==
    /\ repo.pc = "idle"
    /\ repo.meta[".git"] = RegularRepoDir
    /\ repo.meta[GSD_DIR].exists
    /\ repo.meta[GSD_DIR].identity
    /\ repo.meta[GSD_DIR].commits = 2

\* C25: every engine operation reports a non-zero exit.  A call of
\* ensure_repo_initialized during which a git command exited with a
\* non-zero status returns Err(CommandFailed).
NonZeroExitReported ==
    (repo.pc = "returned" /\ repo.failed) => repo.result = "CommandFailed"

\* C31: stage and commit are atomic for a cycle that is not cancelled.
\* When do_commit has returned to a live commit_target_static, no changes
\* that its git add staged are left without the commit.
StageCommitAtomic ==
    \A p \in DOMAIN tasks :
        (Live(p) /\ tasks[p].pc = "lock_end") => ~tasks[p].staged

\* C35: the reload branch of the select loop fires only on a trigger of the
\* config watcher.  While the service has no watcher (no config path, or
\* the watch could not be set up) the reload branch is not ready in the
\* select loop, and the main task is nowhere inside reload_config.
ReloadOnlyOnTrigger ==
    watcher = "closed" =>
        /\ mainPc = "select" => ~ENABLED select_reload
        /\ mainPc \notin {"reload_sleep", "reload_loaded", "reload_remove",
                          "reload_add", "add_target", "add_target_insert"}

\* An activation of commit_target_static for key k stands between its set
\* and its clear of in_flight.
Executing(k) ==
    \E p \in DOMAIN tasks :
        /\ Live(p)
        /\ tasks[p].target_id = k
        /\ tasks[p].pc \in DoCommitPcs \cup {"lock_end"}

\* The scheduler task of the registered target k has been cancelled and
\* the entry has no task.
TaskCancelled(k) ==
    /\ targets[k].task_handle = NoHandle
    /\ \E h \in Handles : tasks[h].aborted /\ tasks[h].target_id = k

\* C39: no stale in_flight flag.  For a registered target whose task has
\* not been cancelled, in_flight implies that an invocation of
\* commit_target_static for its key is executing; and the flag of an entry
\* is set or cleared only by a step of the live task the entry holds the
\* handle of, never by a cancelled task of the same key.
NoStaleInFlight ==
    /\ [](\A k \in DOMAIN targets :
             (~TaskCancelled(k) /\ targets[k].in_flight) => Executing(k))
    /\ [][ \A k \in (DOMAIN targets) \cap (DOMAIN targets') :
              targets'[k].in_flight # targets[k].in_flight
                  => LET h == targets[k].task_handle
                     IN  /\ h # NoHandle
                         /\ Live(h)
                         /\ tasks[h].target_id = k
                         /\ tasks'[h] # tasks[h]
       ]_vars

\* C39, the case: the task of key a was cancelled inside do_commit by an
\* interval-change restart, and the new entry's task is itself in
\* do_commit with in_flight set.
InFlightAfterCancelledAttempt ==
    /\ "a" \in DOMAIN targets
    /\ targets["a"].in_flight
    /\ targets["a"].task_handle = 2
    /\ 2 \in DOMAIN tasks
    /\ InDoCommit(2)
    /\ tasks[1].target_id = "a"
    /\ tasks[1].pc = "cancelled_in_do_commit"

\* C37: a successful initialization leaves a commit.  Whenever
\* ensure_repo_initialized returns Ok, the directory's snapshot repository
\* has at least one commit, also when an earlier call failed after git
\* init had created the metadata directory.
InitializedHasCommit ==
    (repo.pc = "returned" /\ repo.result = "Ok")
        => repo.meta[GSD_DIR].commits >= 1

\* C34: Config::validate accepts a configuration exactly when its schema
\* version is "1", every target path is absolute, no two targets have the
\* same path, and every interval is greater than 0.
ValidateAcceptsExactly ==
    validation.pc = "done" =>
        LET c == validation.config
            n == Len(c.targets)
        IN  (validation.result = "Ok") <=>
                /\ c.schema_version = "1"
                /\ \A i \in 1..n : c.targets[i].path[1] = "/"
                /\ \A i, j \in 1..n :
                       i # j => components(c.targets[i].path)
                                    # components(c.targets[j].path)
                /\ \A i \in 1..n : c.targets[i].interval_seconds > 0

\* C34, the case: a configuration of schema version 1 with two targets at
\* /a, both with a positive interval, has been rejected as a duplicate.
SamePathTwiceRejected ==
    /\ validation.pc = "done"
    /\ validation.config.schema_version = "1"
    /\ Len(validation.config.targets) = 2
    /\ \A i \in 1..2 :
          /\ validation.config.targets[i].path = << "/", "a" >>
          /\ validation.config.targets[i].interval_seconds = 1
    /\ validation.result = "duplicate target path"

\* C33: captured output is size-bounded with a truthful truncation flag.
\* In the result of run_git_with_options the captured stdout is no longer
\* than the cap, and when truncated is false it is all the child wrote.
CaptureBoundedAndTruthful ==
    capture.pc = "done" =>
        /\ capture.stdout_len <= capture.max_bytes
        /\ ~capture.truncated => capture.stdout_len = capture.output

\* A reload with whole configurations has returned after self.config =
\* new_config.
Reloaded == reconcile.pc = "select" /\ reconcile.outcome = "reloaded"

\* C32: after a successful reload the spec stored in the registry for
\* every registered target is that target's spec in the new configuration
\* (interval, ignore patterns, enabled flag).
StoredSpecIsNewSpec ==
    Reloaded =>
        \A k \in DOMAIN reconcile.targets :
            /\ k \in DOMAIN reconcile.config.targets
            /\ reconcile.targets[k].config = reconcile.config.targets[k]

\* C36: a reload never drops a healthy target.  A target registered
\* before the reload and enabled in the new configuration is registered
\* with a live task after it.
HealthyTargetKept ==
    Reloaded =>
        \A k \in (DOMAIN reconcile.before)
                    \cap NewTargetPaths(reconcile.config.targets) :
            /\ k \in DOMAIN reconcile.targets
            /\ reconcile.targets[k].task_handle # NoHandle
            /\ ~reconcile.tasks[reconcile.targets[k].task_handle].aborted

\* C38: targets added or restarted during a reload are initialized with
\* the global settings of the newly loaded configuration.
InitializedWithNewSettings ==
    reconcile.pc # "off" =>
        \A call \in reconcile.initialized :
            call = InitArgs(reconcile.new_config, call.path,
                            reconcile.new_config.targets[call.path])

====
